---- MODULE Spec2Model ----
(***************************************************************************)
(* The mafic cycle executor: Engine (task queue, run, step), the wire map, *)
(* the register map and the five futures a task body awaits.               *)
(***************************************************************************)
EXTENDS Integers, Sequences, FiniteSets, TLC

\* ---------------------------------------------------------------- bounds
MaxTasks == 3      \* tasks scheduled for one run
MaxRuns == 3       \* run() and step() calls explored by Spec
MaxCyclesLong == 7 \* step() calls explored by SpecLong

\* ------------------------------------------------------ program constants
StepLimit == 32    \* engine.rs: assert!(self.steps < 32, "step limit")
NumWires == 4      \* wires allocated by the testbench (ids from 1)
NumRegs == 2       \* registers allocated by the testbench (ids from 1)

Wires == 1 .. NumWires
Regs == 1 .. NumRegs

\* Option<T>
None == <<>>
Some(v) == <<v>>

\* ------------------------------------------------------------ task bodies
\* A task body is the straight-line sequence of awaits of an `async` block.
\* refs names the earlier samples of the body whose sum, plus imm, is driven.
\* a and b are the ids of the handles used, ty their type parameter T.
Sample(w) == [op |-> "sample", a |-> w, b |-> 0, imm |-> 0, refs |-> {}, ty |-> "usize"]
Drive(w, k, rs) == [op |-> "drive", a |-> w, b |-> 0, imm |-> k, refs |-> rs, ty |-> "usize"]
Assign(src, tgt) == [op |-> "assign", a |-> src, b |-> tgt, imm |-> 0, refs |-> {}, ty |-> "usize"]
RSample(r) == [op |-> "rsample", a |-> r, b |-> 0, imm |-> 0, refs |-> {}, ty |-> "usize"]
RDrive(r, k, rs) == [op |-> "rdrive", a |-> r, b |-> 0, imm |-> k, refs |-> rs, ty |-> "usize"]

\* the same await through a handle WireId::<T>::new(id) / RegisterId::<T>::new(id)
\* made by hand with another type parameter
AsType(ins, ty) == [ins EXCEPT !.ty = ty]

Programs == {"modA", "conn", "modB", "poke", "poke2", "loopB", "counter", "setreg", "ram",
             "top", "unkS", "tyD", "unkR", "tyR"}

Body(p) ==
  CASE p = "modA"    -> << Drive(1, 1, {}), Sample(3) >>
    [] p = "conn"    -> << Assign(1, 2) >>
    [] p = "modB"    -> << Sample(2), Drive(3, 1, {1}) >>
    [] p = "poke"    -> << Drive(1, 1, {}) >>
    [] p = "poke2"   -> << Drive(1, 2, {}) >>
    [] p = "loopB"   -> << Sample(2), Drive(1, 0, {1}) >>
    [] p = "counter" -> << RSample(1), Drive(3, 0, {1}), RDrive(1, 1, {1}) >>
    [] p = "setreg"  -> << RDrive(1, 3, {}) >>
    [] p = "ram"     -> << RSample(2), Drive(3, 0, {1}), Sample(1), RDrive(2, 0, {2}) >>
    [] p = "top"     -> << Assign(1, 2), Assign(3, 4) >>
    [] p = "unkS"    -> << Sample(0) >>
    [] p = "tyD"     -> << AsType(Drive(1, 1, {}), "bool") >>
    [] p = "unkR"    -> << RSample(0) >>
    [] p = "tyR"     -> << AsType(RDrive(1, 1, {}), "bool") >>

\* The testbenches: the modules one engine is used with.
Designs == { {"modA", "conn", "modB"},
             {"poke", "poke2", "conn", "modB"},
             {"conn", "loopB"},
             {"counter", "setreg"},
             {"poke", "poke2", "ram"},
             {"poke", "poke2", "top", "modB"} }

\* A testbench whose modules hold handles that were not returned by alloc.
HandleDesign == {"poke", "unkS", "tyD", "unkR", "tyR"}

RegInit(r) == r - 1

\* the type parameter every cell of the testbenches is allocated with
WireType(w) == "usize"
RegType(r) == "usize"

\* WireId<T>, RegisterId<T>
WireId(id, ty) == [id |-> id, ty |-> ty]
RegisterId(id, ty) == [id |-> id, ty |-> ty]

RECURSIVE SumRefs(_, _)
SumRefs(rs, vals) ==
  IF rs = {} THEN 0
  ELSE LET i == CHOOSE x \in rs : TRUE IN vals[i] + SumRefs(rs \ {i}, vals)

Operand(ins, vals) == ins.imm + SumRefs(ins.refs, vals)

\* ------------------------------------------------------------ EngineState
\* s = [wires |-> WireMap cells, regs |-> RegisterMap cells,
\*      log |-> Seq of <<r, v>>: the register drives performed, in order]
\* self.data.get(&id).unwrap() and downcast_mut::<State<T>>().unwrap()
WireLookup(ws, h) ==
  IF h.id \notin DOMAIN ws THEN "unknown handle"
  ELSE IF WireType(h.id) # h.ty THEN "type mismatch"
  ELSE "ok"

RegisterLookup(rs, h) ==
  IF h.id \notin DOMAIN rs THEN "unknown handle"
  ELSE IF RegType(h.id) # h.ty THEN "type mismatch"
  ELSE "ok"

read_wire(s, h) ==
  LET c == WireLookup(s.wires, h) IN
  IF c # "ok" THEN [fatal |-> c, data |-> None]
  ELSE [fatal |-> "none", data |-> s.wires[h.id]]

\* a write that replaces the value of a driven wire
write_wire_overwrite(s, h, v) ==
  LET c == WireLookup(s.wires, h) IN
  IF c # "ok" THEN [state |-> s, fatal |-> c]
  ELSE [state |-> [s EXCEPT !.wires[h.id] = Some(v)], fatal |-> "none"]

write_wire(s, h, v) ==
  LET c == WireLookup(s.wires, h) IN
  IF c # "ok" THEN [state |-> s, fatal |-> c]
  ELSE IF s.wires[h.id] = None
  THEN [state |-> [s EXCEPT !.wires[h.id] = Some(v)], fatal |-> "none"]
  ELSE [state |-> s, fatal |-> "wire conflict"]

\* ---------------------------------------------------------------- futures
\* The result of a poll: Ready with out, Pending, or Panic with the reason.
Ready(s, out) == [state |-> s, poll |-> "Ready", out |-> out, why |-> "none"]
Pending(s) == [state |-> s, poll |-> "Pending", out |-> None, why |-> "none"]
Panic(s, why) == [state |-> s, poll |-> "Panic", out |-> None, why |-> why]
\* a sample that takes the value out of the wire
CombFuturePoll_take(s, h) ==
  LET wire_data == read_wire(s, h) IN
  IF wire_data.fatal # "none" THEN Panic(s, wire_data.fatal)
  ELSE IF wire_data.data # None
  THEN Ready([s EXCEPT !.wires[h.id] = None], wire_data.data)
  ELSE Pending(s)

\* a sample that completes with a default value on an undriven wire
CombFuturePoll_default(s, h) ==
  LET wire_data == read_wire(s, h) IN
  IF wire_data.fatal # "none" THEN Panic(s, wire_data.fatal)
  ELSE Ready(s, IF wire_data.data # None THEN wire_data.data ELSE Some(0))

CombFuturePoll(s, h) ==
  LET wire_data == read_wire(s, h) IN
  IF wire_data.fatal # "none" THEN Panic(s, wire_data.fatal)
  ELSE IF wire_data.data # None
  THEN Ready(s, wire_data.data)
  ELSE Pending(s)
\* a drive that completes without writing the wire
CombDriveFuturePoll_noWrite(s, h, data) ==
  LET c == WireLookup(s.wires, h) IN
  IF c # "ok" THEN Panic(s, c) ELSE Ready(s, None)

CombDriveFuturePoll(s, h, data) ==
  LET r == write_wire(s, h, data) IN
  IF r.fatal # "none" THEN Panic(r.state, r.fatal) ELSE Ready(r.state, None)
\* an assign with the roles of its two wires exchanged
AssignFuturePoll_swapped(s, src, tgt) ==
  LET src_value == read_wire(s, tgt) IN
  IF src_value.fatal # "none" THEN Panic(s, src_value.fatal)
  ELSE IF src_value.data = None
  THEN Pending(s)
  ELSE LET r == write_wire(s, src, src_value.data[1]) IN
       IF r.fatal # "none" THEN Panic(r.state, r.fatal) ELSE Ready(r.state, None)

\* an assign that completes without driving when the source is undriven
AssignFuturePoll_skip(s, src, tgt) ==
  LET src_value == read_wire(s, src) IN
  IF src_value.fatal # "none" THEN Panic(s, src_value.fatal)
  ELSE IF src_value.data = None
  THEN Ready(s, None)
  ELSE LET r == write_wire(s, tgt, src_value.data[1]) IN
       IF r.fatal # "none" THEN Panic(r.state, r.fatal) ELSE Ready(r.state, None)

AssignFuturePoll(s, src, tgt) ==
  LET src_value == read_wire(s, src) IN
  IF src_value.fatal # "none" THEN Panic(s, src_value.fatal)
  ELSE IF src_value.data = None
  THEN Pending(s)
  ELSE LET r == write_wire(s, tgt, src_value.data[1]) IN
       IF r.fatal # "none" THEN Panic(r.state, r.fatal) ELSE Ready(r.state, None)

SyncFuturePoll(s, h) ==
  LET c == RegisterLookup(s.regs, h) IN
  IF c # "ok" THEN Panic(s, c)
  ELSE Ready(s, Some(s.regs[h.id].data))
\* a drive that downcasts the cell without checking its type
SyncDriveFuturePoll_unchecked(s, h, data) ==
  IF h.id \notin DOMAIN s.regs THEN Panic(s, "unknown handle")
  ELSE Ready([s EXCEPT !.regs[h.id].next = Some(data), !.log = Append(@, <<h.id, data>>)], None)

SyncDriveFuturePoll(s, h, data) ==
  LET c == RegisterLookup(s.regs, h) IN
  IF c # "ok" THEN Panic(s, c)
  ELSE Ready([s EXCEPT !.regs[h.id].next = Some(data), !.log = Append(@, <<h.id, data>>)], None)

AwaitPoll(s, ins, vals) ==
  CASE ins.op = "sample"  -> CombFuturePoll(s, WireId(ins.a, ins.ty))
    [] ins.op = "drive"   -> CombDriveFuturePoll(s, WireId(ins.a, ins.ty), Operand(ins, vals))
    [] ins.op = "assign"  -> AssignFuturePoll(s, WireId(ins.a, ins.ty), WireId(ins.b, ins.ty))
    [] ins.op = "rsample" -> SyncFuturePoll(s, RegisterId(ins.a, ins.ty))
    [] ins.op = "rdrive"  -> SyncDriveFuturePoll(s, RegisterId(ins.a, ins.ty), Operand(ins, vals))

\* One poll of a task: the body resumes at the await it is at and runs until
\* an await is pending, an await panics, or the body ends.
NewTask(p) == [name |-> p, at |-> 1, vals |-> <<>>]

RECURSIVE TaskPoll(_, _)
\* a task whose body starts again from its first await when it is re-polled
TaskResume_restart(t, r) ==
  IF r.poll = "Ready"
  THEN TaskPoll(r.state, [t EXCEPT !.at = @ + 1, !.vals = @ \o r.out])
  ELSE [state |-> r.state, task |-> NewTask(t.name), poll |-> r.poll, why |-> r.why]

\* the body after the await it is at was polled with result r
TaskResume(t, r) ==
  IF r.poll = "Ready"
  THEN TaskPoll(r.state, [t EXCEPT !.at = @ + 1, !.vals = @ \o r.out])
  ELSE [state |-> r.state, task |-> t, poll |-> r.poll, why |-> r.why]

TaskPoll(s, t) ==
  IF t.at > Len(Body(t.name))
  THEN [state |-> s, task |-> t, poll |-> "Ready", why |-> "none"]
  ELSE TaskResume(t, AwaitPoll(s, Body(t.name)[t.at], t.vals))

\* ----------------------------------------------------------------- cells
WireStateReset(c) == None

RegisterStateReset(c) == [c EXCEPT !.data = c.reset_data]
\* an update that reads the pending value without taking it
RegisterStateUpdate_keep(c) ==
  IF c.next # None THEN [c EXCEPT !.data = c.next[1]] ELSE c

\* an update that falls back to T::default() when nothing is pending
RegisterStateUpdate_default(c) ==
  IF c.next # None THEN [c EXCEPT !.data = c.next[1], !.next = None] ELSE [c EXCEPT !.data = 0]

RegisterStateUpdate(c) ==
  IF c.next # None THEN [c EXCEPT !.data = c.next[1], !.next = None] ELSE c

\* a reset that misses the first cell of the map
WireMapReset_skipFirst(ws) ==
  [w \in DOMAIN ws |-> IF w = 1 THEN ws[w] ELSE WireStateReset(ws[w])]

WireMapReset(ws) == [w \in DOMAIN ws |-> WireStateReset(ws[w])]

RegisterMapUpdate(rs) == [r \in DOMAIN rs |-> RegisterStateUpdate(rs[r])]

RegisterMapReset(rs) == [r \in DOMAIN rs |-> RegisterStateReset(rs[r])]

\* WireMap::peek_wire, RegisterMap::peek_register
peek_wire(ws, h) ==
  LET c == WireLookup(ws, h) IN
  IF c # "ok" THEN [fatal |-> c] ELSE [fatal |-> "none", data |-> ws[h.id]]

peek_register(rs, h) ==
  LET c == RegisterLookup(rs, h) IN
  IF c # "ok" THEN [fatal |-> c] ELSE [fatal |-> "none", data |-> rs[h.id].data]
\* ----------------------------------------------------------------- engine
\* a loop that puts every polled task back in the queue, completed or not
RunIterPolled_requeue(e, rest, r) ==
  CASE r.poll = "Pending" ->
         [e EXCEPT !.tasks = Append(rest, r.task), !.wires = r.state.wires,
                   !.regs = r.state.regs, !.log = r.state.log,
                   !.steps = @ + 1, !.polled = TRUE, !.done = FALSE]
    [] r.poll = "Ready" ->
         [e EXCEPT !.tasks = Append(rest, r.task), !.wires = r.state.wires,
                   !.regs = r.state.regs, !.log = r.state.log,
                   !.polled = TRUE, !.done = TRUE]
    [] r.poll = "Panic" ->
         [e EXCEPT !.tasks = rest, !.wires = r.state.wires,
                   !.regs = r.state.regs, !.log = r.state.log,
                   !.err = r.why, !.polled = TRUE, !.done = FALSE]

\* a loop that puts a suspended task back at the front of the queue
RunIterPolled_pushFront(e, rest, r) ==
  CASE r.poll = "Pending" ->
         [e EXCEPT !.tasks = << r.task >> \o rest, !.wires = r.state.wires,
                   !.regs = r.state.regs, !.log = r.state.log,
                   !.steps = @ + 1, !.polled = TRUE, !.done = FALSE]
    [] r.poll = "Ready" ->
         [e EXCEPT !.tasks = rest, !.wires = r.state.wires,
                   !.regs = r.state.regs, !.log = r.state.log,
                   !.polled = TRUE, !.done = TRUE]
    [] r.poll = "Panic" ->
         [e EXCEPT !.tasks = rest, !.wires = r.state.wires,
                   !.regs = r.state.regs, !.log = r.state.log,
                   !.err = r.why, !.polled = TRUE, !.done = FALSE]

\* e = [tasks, wires, regs, steps, err, log, polled, done]
\* The match on the result r of the poll of the popped task; rest is the
\* queue after pop_front().
RunIterPolled(e, rest, r) ==
  CASE r.poll = "Pending" ->
         [e EXCEPT !.tasks = Append(rest, r.task), !.wires = r.state.wires,
                   !.regs = r.state.regs, !.log = r.state.log,
                   !.steps = @ + 1, !.polled = TRUE, !.done = FALSE]
    [] r.poll = "Ready" ->
         [e EXCEPT !.tasks = rest, !.wires = r.state.wires,
                   !.regs = r.state.regs, !.log = r.state.log,
                   !.polled = TRUE, !.done = TRUE]
    [] r.poll = "Panic" ->
         [e EXCEPT !.tasks = rest, !.wires = r.state.wires,
                   !.regs = r.state.regs, !.log = r.state.log,
                   !.err = r.why, !.polled = TRUE, !.done = FALSE]
\* a loop whose limit check lets the poll go ahead when steps equals the limit
RunIter_offByOne(e) ==
  IF ~(e.steps <= StepLimit)
  THEN [e EXCEPT !.tasks = Tail(e.tasks), !.err = "step limit", !.polled = FALSE, !.done = FALSE]
  ELSE RunIterPolled(e, Tail(e.tasks),
                     TaskPoll([wires |-> e.wires, regs |-> e.regs, log |-> e.log], Head(e.tasks)))

\* One iteration of the `while let Some(task) = pop_front()` loop of run().
RunIter(e) ==
  IF ~(e.steps < StepLimit)
  THEN [e EXCEPT !.tasks = Tail(e.tasks), !.err = "step limit", !.polled = FALSE, !.done = FALSE]
  ELSE RunIterPolled(e, Tail(e.tasks),
                     TaskPoll([wires |-> e.wires, regs |-> e.regs, log |-> e.log], Head(e.tasks)))

RECURSIVE RunLoop(_)
RunLoop(e) ==
  IF e.tasks = <<>> \/ e.err # "none" THEN e ELSE RunLoop(RunIter(e))

\* ------------------------------------------------------------------ state
VARIABLES
  design,     \* the modules of the testbench
  tasks,      \* Engine.tasks
  wires,      \* EngineState.wires: id -> Option<T>
  regs,       \* EngineState.registers: id -> [data, reset_data, next]
  steps,      \* Engine.steps
  cycles,     \* Engine.cycles
  pc,         \* where the caller of the engine is
  err,        \* the panic that ended the program, or "none"
  \* history of the current run / cycle
  sched,      \* names of the tasks in the queue when run() was entered
  w0, r0,     \* wires and registers when run() was entered
  staged,     \* register -> values driven into it since the last commit
  runSusp,    \* polls of this run() that returned Pending
  runPolls,   \* polls of this run()
  passLeft,   \* polls left in the current rotation of the queue
  passProg,   \* a task completed or a wire became driven in this rotation
  stalled,    \* a rotation ended without progress and with tasks queued
  stepsDone,  \* step() calls that returned
  runs,       \* run() and step() calls made
  justReset   \* the last operation was a reset of the registers

vars == << design, tasks, wires, regs, steps, cycles, pc, err,
           sched, w0, r0, staged, runSusp, runPolls, passLeft, passProg,
           stalled, stepsDone, runs, justReset >>

hist == << sched, w0, r0, runSusp, runPolls, passLeft, passProg, stalled >>

NoWires == [w \in Wires |-> None]
NoStaged == [r \in Regs |-> <<>>]

InitOf(D) ==
  /\ design \in D
  /\ tasks = <<>>
  /\ wires = NoWires
  /\ regs = [r \in Regs |-> [data |-> RegInit(r), reset_data |-> RegInit(r), next |-> None]]
  /\ steps = 0
  /\ cycles = 0
  /\ pc = "idle"
  /\ err = "none"
  /\ sched = <<>>
  /\ w0 = NoWires
  /\ r0 = regs
  /\ staged = NoStaged
  /\ runSusp = 0
  /\ runPolls = 0
  /\ passLeft = 0
  /\ passProg = FALSE
  /\ stalled = FALSE
  /\ stepsDone = 0
  /\ runs = 0
  /\ justReset = FALSE

Init == InitOf(Designs)

Idle == pc = "idle" /\ err = "none"
Running == pc \in {"run", "step_run"} /\ err = "none"

\* Engine::schedule / Engine::schedule_module; as in every test bench, a
\* module is scheduled at most once for a run.
Schedule(p) ==
  /\ Idle
  /\ Len(tasks) < MaxTasks
  /\ \A i \in 1 .. Len(tasks) : tasks[i].name # p
  /\ tasks' = Append(tasks, NewTask(p))
  /\ justReset' = FALSE
  /\ UNCHANGED << design, wires, regs, steps, cycles, pc, err, staged, stepsDone, runs >>
  /\ UNCHANGED hist

Enter(to) ==
  /\ Idle
  /\ pc' = to
  /\ runs' = runs + 1
  /\ sched' = [i \in 1 .. Len(tasks) |-> tasks[i].name]
  /\ w0' = wires
  /\ r0' = regs
  /\ runSusp' = 0
  /\ runPolls' = 0
  /\ passLeft' = Len(tasks)
  /\ passProg' = FALSE
  /\ stalled' = FALSE
  /\ justReset' = FALSE
  /\ UNCHANGED << design, tasks, wires, regs, steps, cycles, err, staged, stepsDone >>

\* a call of Engine::run
RunCall == runs < MaxRuns /\ Enter("run")

\* a call of Engine::step
StepCall == runs < MaxRuns /\ Enter("step_run")

\* a call of Engine::step in a long simulation
StepCallLong == cycles < MaxCyclesLong /\ Enter("step_run")

LogOf(l, r) == SelectSeq(l, LAMBDA x : x[1] = r)

\* the engine and the history after an iteration of the loop that gave e
PollTo(e) ==
  LET progress == e.done \/ \E w \in Wires : wires[w] = None /\ e.wires[w] # None
      endPass == e.polled /\ passLeft = 1
  IN /\ tasks' = e.tasks
     /\ wires' = e.wires
     /\ regs' = e.regs
     /\ steps' = e.steps
     /\ err' = e.err
     /\ staged' = [r \in Regs |->
                     staged[r] \o [i \in 1 .. Len(LogOf(e.log, r)) |-> LogOf(e.log, r)[i][2]]]
     /\ runSusp' = IF e.steps > steps THEN runSusp + 1 ELSE runSusp
     /\ runPolls' = IF e.polled THEN runPolls + 1 ELSE runPolls
     /\ passLeft' = IF ~e.polled THEN passLeft
                    ELSE IF endPass THEN Len(e.tasks) ELSE passLeft - 1
     /\ passProg' = IF ~e.polled THEN passProg
                    ELSE IF endPass THEN FALSE ELSE passProg \/ progress
     /\ stalled' = (stalled \/ (endPass /\ ~(passProg \/ progress) /\ e.tasks # <<>>
                                 /\ e.err = "none"))

\* one iteration of the loop of Engine::run
Poll ==
  /\ Running
  /\ tasks # <<>>
  /\ PollTo(RunIter([tasks |-> tasks, wires |-> wires, regs |-> regs, steps |-> steps,
                     err |-> err, log |-> <<>>, polled |-> FALSE, done |-> FALSE]))
  /\ justReset' = FALSE
  /\ UNCHANGED << design, cycles, pc, sched, w0, r0, stepsDone, runs >>

ClearHist ==
  /\ sched' = <<>>
  /\ w0' = NoWires
  /\ r0' = regs
  /\ runSusp' = 0
  /\ runPolls' = 0
  /\ passLeft' = 0
  /\ passProg' = FALSE
  /\ stalled' = FALSE

\* a run() that clears the wires when it returns
RunReturn_reset ==
  /\ pc = "run" /\ err = "none"
  /\ tasks = <<>>
  /\ pc' = "idle"
  /\ wires' = WireMapReset(wires)
  /\ ClearHist
  /\ justReset' = FALSE
  /\ UNCHANGED << design, tasks, regs, steps, cycles, err, staged, stepsDone, runs >>

\* Engine::run returns: pop_front() found the queue empty
RunReturn ==
  /\ pc = "run" /\ err = "none"
  /\ tasks = <<>>
  /\ pc' = "idle"
  /\ ClearHist
  /\ justReset' = FALSE
  /\ UNCHANGED << design, tasks, wires, regs, steps, cycles, err, staged, stepsDone, runs >>

\* Engine::step, after run() returned: self.reset_wires()
StepResetWires ==
  /\ pc = "step_run" /\ err = "none"
  /\ tasks = <<>>
  /\ wires' = WireMapReset(wires)
  /\ pc' = "step_update"
  /\ justReset' = FALSE
  /\ UNCHANGED << design, tasks, regs, steps, cycles, err, staged, stepsDone, runs >>
  /\ UNCHANGED hist

\* Engine::step: self.update_registers()
StepUpdateRegisters ==
  /\ pc = "step_update" /\ err = "none"
  /\ regs' = RegisterMapUpdate(regs)
  /\ staged' = NoStaged
  /\ pc' = "step_inc"
  /\ justReset' = FALSE
  /\ UNCHANGED << design, tasks, wires, steps, cycles, err, stepsDone, runs >>
  /\ UNCHANGED hist

\* a step that counts the cycle before and after the register update
StepIncrement_twice ==
  /\ pc = "step_inc" /\ err = "none"
  /\ cycles' = cycles + 2
  /\ stepsDone' = stepsDone + 1
  /\ pc' = "idle"
  /\ ClearHist
  /\ justReset' = FALSE
  /\ UNCHANGED << design, tasks, wires, regs, steps, err, staged, runs >>

\* Engine::step: self.cycles += 1, and step returns
StepIncrement ==
  /\ pc = "step_inc" /\ err = "none"
  /\ cycles' = cycles + 1
  /\ stepsDone' = stepsDone + 1
  /\ pc' = "idle"
  /\ ClearHist
  /\ justReset' = FALSE
  /\ UNCHANGED << design, tasks, wires, regs, steps, err, staged, runs >>

\* Engine::reset_wires called by the testbench
ResetWires ==
  /\ Idle
  /\ wires' = WireMapReset(wires)
  /\ justReset' = FALSE
  /\ UNCHANGED << design, tasks, regs, steps, cycles, pc, err, staged, stepsDone, runs >>
  /\ UNCHANGED hist
\* an update_registers that also clears the wires
UpdateRegisters_clearWires ==
  /\ Idle
  /\ regs' = RegisterMapUpdate(regs)
  /\ wires' = WireMapReset(wires)
  /\ staged' = NoStaged
  /\ justReset' = FALSE
  /\ UNCHANGED << design, tasks, steps, cycles, pc, err, stepsDone, runs >>
  /\ UNCHANGED << sched, w0, runSusp, runPolls, passLeft, passProg, stalled >>
  /\ r0' = regs'

\* Engine::update_registers called by the testbench
UpdateRegisters ==
  /\ Idle
  /\ regs' = RegisterMapUpdate(regs)
  /\ staged' = NoStaged
  /\ justReset' = FALSE
  /\ UNCHANGED << design, tasks, wires, steps, cycles, pc, err, stepsDone, runs >>
  /\ UNCHANGED << sched, w0, runSusp, runPolls, passLeft, passProg, stalled >>
  /\ r0' = regs'

Next ==
  \/ \E p \in design : Schedule(p)
  \/ RunCall
  \/ StepCall
  \/ Poll
  \/ RunReturn
  \/ StepResetWires
  \/ StepUpdateRegisters
  \/ StepIncrement
  \/ ResetWires
  \/ UpdateRegisters

Spec == Init /\ [][Next]_vars

\* A long simulation of the testbench of tests/simple.rs, one step() per cycle.
InitLong == InitOf({{"modA", "conn", "modB"}})

NextLong ==
  \/ \E p \in design : Schedule(p)
  \/ StepCallLong
  \/ Poll
  \/ StepResetWires
  \/ StepUpdateRegisters
  \/ StepIncrement

SpecLong == InitLong /\ [][NextLong]_vars

\* The engine with a reset driver for the registers, on the testbenches that
\* have tasks driving registers.
RegisterDesigns == { d \in Designs : \E p \in d : \E i \in 1 .. Len(Body(p)) : Body(p)[i].op = "rdrive" }

InitReset == InitOf(RegisterDesigns)

\* RegisterLike::reset on every register
ResetRegisters ==
  /\ Idle
  /\ regs' = RegisterMapReset(regs)
  /\ r0' = regs'
  /\ justReset' = TRUE
  /\ UNCHANGED << design, tasks, wires, steps, cycles, pc, err, staged, stepsDone, runs >>
  /\ UNCHANGED << sched, w0, runSusp, runPolls, passLeft, passProg, stalled >>

NextReset == Next \/ ResetRegisters

SpecReset == InitReset /\ [][NextReset]_vars

\* The engine used through handles that alloc did not return.
Types == {"usize", "bool"}
WireHandles == { WireId(i, t) : i \in 0 .. NumWires, t \in Types }
RegisterHandles == { RegisterId(i, t) : i \in 0 .. NumRegs, t \in Types }

InitHandles == InitOf({HandleDesign})

\* the testbench reads a wire: state.wires.peek_wire(h)
PeekWire(h) ==
  /\ Idle
  /\ err' = peek_wire(wires, h).fatal
  /\ justReset' = FALSE
  /\ UNCHANGED << design, tasks, wires, regs, steps, cycles, pc, staged, stepsDone, runs >>
  /\ UNCHANGED hist

\* the testbench reads a register: state.registers.peek_register(h)
PeekRegister(h) ==
  /\ Idle
  /\ err' = peek_register(regs, h).fatal
  /\ justReset' = FALSE
  /\ UNCHANGED << design, tasks, wires, regs, steps, cycles, pc, staged, stepsDone, runs >>
  /\ UNCHANGED hist

NextHandles ==
  \/ \E p \in design : Schedule(p)
  \/ RunCall
  \/ Poll
  \/ RunReturn
  \/ ResetWires
  \/ \E h \in WireHandles : PeekWire(h)
  \/ \E h \in RegisterHandles : PeekRegister(h)

SpecHandles == InitHandles /\ [][NextHandles]_vars

TypeOK ==
  /\ design \in Designs \cup {HandleDesign}
  /\ steps \in 0 .. StepLimit
  /\ cycles \in 0 .. MaxCyclesLong
  /\ pc \in {"idle", "run", "step_run", "step_update", "step_inc"}
  /\ err \in {"none", "step limit", "wire conflict", "unknown handle", "type mismatch"}
  /\ Len(tasks) <= MaxTasks
  /\ \A w \in Wires : Len(wires[w]) <= 1

\* ------------------------------------------------- dependency graph of a run
\* The awaits of the tasks scheduled for a run, <<task, await>>, ordered by
\* the program order of each body and by driver-before-reader on each wire
\* that was undriven when run() was entered.
Nodes(sc) == UNION { { <<t, i>> : i \in 1 .. Len(Body(sc[t])) } : t \in 1 .. Len(sc) }
InsAt(sc, n) == Body(sc[n[1]])[n[2]]
ReadsOf(ins) == IF ins.op \in {"sample", "assign"} THEN {ins.a} \cap Wires ELSE {}
WritesOf(ins) ==
  IF ins.op = "drive" THEN {ins.a} \cap Wires
  ELSE IF ins.op = "assign" THEN {ins.b} \cap Wires ELSE {}

Edges(sc, ws) ==
  { e \in Nodes(sc) \X Nodes(sc) :
      \/ e[1][1] = e[2][1] /\ e[2][2] = e[1][2] + 1
      \/ \E w \in WritesOf(InsAt(sc, e[1])) \cap ReadsOf(InsAt(sc, e[2])) : ws[w] = None }

\* Topological sort: peel the awaits that no remaining await precedes.
RECURSIVE Peel(_, _)
Peel(N, E) ==
  LET free == { n \in N : \A e \in E : e[2] = n => e[1] \notin N } IN
  IF free = {} THEN N ELSE Peel(N \ free, E)

Cyclic(sc, ws) == Peel(Nodes(sc), Edges(sc, ws)) # {}

Unsatisfied(sc, ws) ==
  \E n \in Nodes(sc) : \E w \in ReadsOf(InsAt(sc, n)) :
     ws[w] = None /\ ~\E m \in Nodes(sc) : w \in WritesOf(InsAt(sc, m))

AcyclicSat(sc, ws) == ~Cyclic(sc, ws) /\ ~Unsatisfied(sc, ws)
Stuck(sc, ws) == Cyclic(sc, ws) \/ Unsatisfied(sc, ws)

InRun == pc \in {"run", "step_run"}
PollStep == Running /\ tasks # <<>>
HeadIns == Body(Head(tasks).name)[Head(tasks).at]

\* ------------------------------------------------------------------ claims

\* C1: between two wire resets at most one drive of a wire succeeds: a
\* wire that holds Some(prev) keeps prev until the wires are reset, and a
\* poll in which a task drives or assigns to such a wire ends the program
\* with the wire-conflict error and changes no wire.
C1_SingleDriver ==
  [][ /\ \A w \in Wires : wires[w] # None =>
            \/ wires'[w] = wires[w]
            \/ wires'[w] = None /\ ~PollStep
      /\ ( /\ PollStep /\ steps < StepLimit
           /\ \/ HeadIns.op = "drive" /\ wires[HeadIns.a] # None
              \/ HeadIns.op = "assign" /\ wires[HeadIns.a] # None /\ wires[HeadIns.b] # None )
         => (err' = "wire conflict" /\ wires' = wires) ]_vars

C1_Witness ==
  /\ err = "wire conflict"
  /\ wires[1] # None
  /\ \E i \in 1 .. Len(sched) : sched[i] = "poke2"

\* C2: within one cycle at most one pending write of a register is accepted:
\* a poll never replaces a pending value Some(prev) of a register.
C2_SinglePending ==
  [][ PollStep => \A r \in Regs : regs[r].next # None => regs'[r].next = regs[r].next ]_vars

\* C3: in the state in which a step() returns, and in every state of the
\* step after its wire reset, every allocated wire is None.
C3_CycleIsolation ==
  /\ [](pc \in {"step_update", "step_inc"} => \A w \in Wires : wires[w] = None)
  /\ [][ (pc = "step_inc" /\ pc' = "idle") => \A w \in Wires : wires'[w] = None ]_vars

C3_Witness ==
  /\ pc = "step_inc"
  /\ \A w \in Wires : wires[w] = None
  /\ \E i \in 1 .. Len(sched) : Body(sched[i])[1].op = "drive"

Commits ==
  \/ pc = "step_update" /\ pc' = "step_inc"
  \/ pc = "idle" /\ pc' = "idle" /\ staged # NoStaged /\ staged' = NoStaged

\* C4: a register driven with v during a cycle keeps its value during the
\* polls of that cycle, and after the cycle boundary it holds v, for every v
\* that a task drove into it during the cycle.
C4_TwoPhase ==
  [][ /\ PollStep => \A r \in Regs : regs'[r].data = regs[r].data
      /\ Commits => \A r \in Regs : \A i \in 1 .. Len(staged[r]) :
                        regs'[r].data = staged[r][i] ]_vars

ReturnsNormally == InRun /\ tasks = <<>> /\ err = "none"

\* C5: a run() entered with tasks whose dependency graph is acyclic and
\* whose samples all have a driver does not fail with the step limit, and
\* polls at most N*N + N times for N tasks.
C5_Progress ==
  (InRun /\ AcyclicSat(sched, w0)) =>
     /\ err # "step limit"
     /\ runPolls <= Len(sched) * Len(sched) + Len(sched)

\* C6 as stated: a run() entered with tasks that contain a dependency cycle
\* or an unsatisfiable sample, once it has ended, has ended in a stall error.
C6_StallError ==
  (InRun /\ Stuck(sched, w0) /\ err # "none") => err \in {"step limit", "deadlock"}

\* C6 amended: a run() entered with tasks that contain a dependency cycle or
\* an unsatisfiable sample never returns normally and does not poll forever:
\* in each of its states it has either failed, with the step limit or with a
\* wire conflict raised by a poll before the limit was reached, or it still
\* has a task to poll and has polled fewer than StepLimit + N times.
C6_StallFatal ==
  (InRun /\ Stuck(sched, w0)) =>
     \/ err \in {"step limit", "wire conflict"}
     \/ err = "none" /\ tasks # <<>> /\ runPolls < StepLimit + Len(sched)

C6_Witness ==
  /\ InRun /\ Stuck(sched, w0)
  /\ err = "step limit"
  /\ runPolls >= StepLimit

\* C7: when a full rotation of the queue has ended without a completed task
\* and without a newly driven wire, and tasks remain, run() has failed with
\* the deadlock error.
C7_NoProgress == stalled => err = "deadlock"

Perms(n) == { f \in [1 .. n -> 1 .. n] : \A i, j \in 1 .. n : f[i] = f[j] => i = j }

\* the engine at the entry of the current run(), had the tasks been scheduled as q
EntryWith(q) ==
  [tasks |-> [i \in 1 .. Len(q) |-> NewTask(q[i])], wires |-> w0, regs |-> r0,
   steps |-> steps - runSusp, err |-> "none", log |-> <<>>, polled |-> FALSE, done |-> FALSE]

\* C8: when a run() of an acyclic task set returns, every permutation of
\* the schedule calls that returns too gives the same wires and the same
\* registers after the commit.
C8_OrderIndependence ==
  (ReturnsNormally /\ AcyclicSat(sched, w0)) =>
     \A f \in Perms(Len(sched)) :
        LET e == RunLoop(EntryWith([i \in 1 .. Len(sched) |-> sched[f[i]]])) IN
        e.err = "none" =>
           /\ e.wires = wires
           /\ RegisterMapUpdate(e.regs) = RegisterMapUpdate(regs)

\* C9: the counter run() compares with the step limit counts the
\* suspensions of the current run() only.
C9_PerCycleLimit == InRun => steps = runSusp

\* C10: step() drains the queue, then clears the wires, then commits the
\* registers, then adds one to the cycle counter and returns; no other
\* operation changes the cycle counter, which equals the number of step()
\* calls that returned.
C10_StepOrder ==
  /\ [](cycles = stepsDone)
  /\ [][ /\ (cycles' # cycles) =>
              (pc = "step_inc" /\ pc' = "idle" /\ cycles' = cycles + 1)
         /\ (pc = "step_run" /\ pc' # pc) =>
              ( /\ tasks = <<>> /\ pc' = "step_update"
                /\ \A w \in Wires : wires'[w] = None
                /\ regs' = regs )
         /\ (pc = "step_update" /\ pc' # pc) =>
              ( /\ pc' = "step_inc"
                /\ regs' = RegisterMapUpdate(regs)
                /\ \A w \in Wires : wires'[w] = None )
         /\ (pc = "step_inc" /\ pc' # pc) =>
              ( /\ pc' = "idle" /\ regs' = regs /\ wires' = wires
                /\ \A r \in Regs : regs[r].next = None ) ]_vars

C10_Witness ==
  /\ pc = "idle"
  /\ cycles = 2
  /\ runs = 3
  /\ regs[1].data # RegInit(1)

\* ------------------------------------------------------------- registers
\* the registers some task of the testbench drives
DrivenRegs(d) ==
  { r \in Regs : \E p \in d : \E i \in 1 .. Len(Body(p)) :
      Body(p)[i].op = "rdrive" /\ Body(p)[i].a = r /\ Body(p)[i].ty = RegType(r) }

\* what the testbench reads with peek_register through the handle alloc returned
PeekReg(r) == peek_register(regs, RegisterId(r, RegType(r)))

\* C11: a register allocated with the initial value v reads v until a task
\* drives it: a register no task drives reads v in every state, whatever the
\* number of step() calls; the value of a register changes only when a commit
\* moves a pending value into it (never back to the reset value on its own),
\* and a value becomes pending only in a poll of a task.
C11_ResetValue ==
  /\ [](\A r \in Regs \ DrivenRegs(design) :
           PeekReg(r).fatal = "none" /\ PeekReg(r).data = RegInit(r) /\ regs[r].next = None)
  /\ [][ \A r \in Regs :
           /\ regs'[r].data # regs[r].data =>
                (Commits /\ regs[r].next # None /\ regs'[r].data = regs[r].next[1])
           /\ (regs[r].next = None /\ regs'[r].next # None) => PollStep
           /\ regs'[r].reset_data = RegInit(r) ]_vars

C11_Witness ==
  /\ pc = "idle"
  /\ cycles = 2
  /\ 1 \in DrivenRegs(design) /\ regs[1].data # RegInit(1)
  /\ 2 \notin DrivenRegs(design) /\ PeekReg(2).data = RegInit(2) /\ RegInit(2) # 0

\* C12: a commit gives every register with a pending value v the value v,
\* leaves the value of every register with nothing pending as it was, and
\* leaves no register with a pending value; a second commit right after it
\* changes nothing.
C12_Commit ==
  /\ [](RegisterMapUpdate(RegisterMapUpdate(regs)) = RegisterMapUpdate(regs))
  /\ [][ Commits =>
           /\ \A r \in Regs :
                /\ regs[r].next # None => regs'[r].data = regs[r].next[1]
                /\ regs[r].next = None => regs'[r].data = regs[r].data
                /\ regs'[r].next = None
           /\ RegisterMapUpdate(regs') = regs' ]_vars

C12_Witness ==
  /\ pc = "step_inc"
  /\ r0[1].next = None /\ regs[1].data # r0[1].data
  /\ regs[2].data = r0[2].data
  /\ \A r \in Regs : regs[r].next = None

\* C13: right after a reset of the registers every register reads its reset
\* value and has no pending value, so a value staged before the reset is not
\* committed by a later commit.
C13_RegisterReset ==
  justReset => \A r \in Regs : regs[r].data = regs[r].reset_data /\ regs[r].next = None

\* --------------------------------------------------------------- futures
\* the EngineState a future polled in the current state sees, and the
\* handles alloc returned
Cur == [wires |-> wires, regs |-> regs, log |-> <<>>]
GoodWire(w) == WireId(w, WireType(w))
GoodReg(r) == RegisterId(r, RegType(r))
\* the values the testbenches allocate registers with
Data == { RegInit(r) : r \in Regs }

\* C14: a poll suspends exactly at a sample or an assign whose source wire
\* is undriven. In every state: a sample is Pending iff its wire is None and
\* otherwise Ready with exactly the value of the wire; an assign is Pending
\* iff its source is None; a drive of a wire, a sample of a register and a
\* drive of a register are never Pending (the last two are Ready, a drive of
\* a wire is Ready or the fatal conflict of C1). In every poll of run(): the
\* poll is counted as a suspension iff the task goes to the tail of the queue,
\* and then the await it is at is a sample or an assign whose source is None.
C14_PendingIff ==
  /\ [](/\ \A w \in Wires :
             LET r == CombFuturePoll(Cur, GoodWire(w)) IN
             /\ r.poll = "Pending" <=> wires[w] = None
             /\ wires[w] # None => (r.poll = "Ready" /\ r.out = wires[w] /\ r.state = Cur)
             /\ \A v \in Data : CombDriveFuturePoll(Cur, GoodWire(w), v).poll # "Pending"
             /\ \A tgt \in Wires :
                  AssignFuturePoll(Cur, GoodWire(w), GoodWire(tgt)).poll = "Pending"
                     <=> wires[w] = None
        /\ \A r \in Regs :
             /\ SyncFuturePoll(Cur, GoodReg(r)).poll = "Ready"
             /\ SyncFuturePoll(Cur, GoodReg(r)).out = Some(regs[r].data)
             /\ \A v \in Data : SyncDriveFuturePoll(Cur, GoodReg(r), v).poll = "Ready")
  /\ [][ (PollStep /\ steps < StepLimit) =>
           /\ (steps' = steps + 1) <=> (Len(tasks') = Len(tasks))
           /\ (steps' = steps + 1) =>
                LET t == tasks'[Len(tasks')] IN
                /\ t.name = Head(tasks).name
                /\ t.at <= Len(Body(t.name))
                /\ Body(t.name)[t.at].op \in {"sample", "assign"}
                /\ wires'[Body(t.name)[t.at].a] = None ]_vars

C14_Witness ==
  /\ Running
  /\ runSusp >= 2
  /\ \E i \in 1 .. Len(tasks) :
       /\ tasks[i].at = 2
       /\ Body(tasks[i].name)[2].op = "sample"
       /\ wires[Body(tasks[i].name)[2].a] = None
  /\ wires[1] = Some(1) /\ wires[2] = Some(1)

\* the modules scheduled for the current run() include p
Scheduled(p) == \E i \in 1 .. Len(sched) : sched[i] = p

\* C15: in every state an assign of src to tgt polled while src is None is
\* Pending and changes no wire and no register; polled while src holds a
\* value and tgt is undriven it is Ready and changes exactly tgt, to the value
\* of src. When a run() of top (assign 1 -> 2 into the inner module, assign
\* 3 -> 4 out of it) and the inner module modB (3 <- 2 + 1) returns, in the
\* first cycle and in every later one, the outer output 4 holds the stimulus
\* on wire 1 plus one.
C15_Assign ==
  /\ \A src, tgt \in Wires :
       LET r == AssignFuturePoll(Cur, GoodWire(src), GoodWire(tgt)) IN
       /\ wires[src] = None => (r.poll = "Pending" /\ r.state = Cur)
       /\ (wires[src] # None /\ wires[tgt] = None) =>
            /\ r.poll = "Ready"
            /\ r.state.wires = [wires EXCEPT ![tgt] = wires[src]]
            /\ r.state.regs = regs
  /\ (ReturnsNormally /\ Scheduled("top") /\ Scheduled("modB")) =>
       /\ wires[1] # None
       /\ wires[2] = wires[1]
       /\ wires[3] = Some(wires[1][1] + 1)
       /\ wires[4] = wires[3]

C15_Witness ==
  /\ ReturnsNormally
  /\ cycles = 1
  /\ sched = << "poke2", "top", "modB" >>
  /\ peek_wire(wires, GoodWire(4)).data = Some(3)

\* the wires the awaits of the tasks scheduled for the current run() drive
DrivenWires(sc) == UNION { WritesOf(InsAt(sc, n)) : n \in Nodes(sc) }

\* what the testbench reads with peek_wire through the handle alloc returned
PeekWireOf(w) == peek_wire(wires, GoodWire(w))

\* C16: in every state of a run(), a wire that no scheduled task drives reads
\* what it read when run() was entered (None if it was undriven); when run()
\* returns, a wire that a task drove with the constant v reads Some(v).
C16_RunFrame ==
  /\ InRun => \A w \in Wires \ DrivenWires(sched) :
                /\ PeekWireOf(w).fatal = "none"
                /\ PeekWireOf(w).data = w0[w]
  /\ ReturnsNormally =>
       \A n \in Nodes(sched) :
         (InsAt(sched, n).op = "drive" /\ InsAt(sched, n).refs = {}) =>
            PeekWireOf(InsAt(sched, n).a).data = Some(InsAt(sched, n).imm)

C16_Witness ==
  /\ ReturnsNormally
  /\ sched = << "conn", "poke" >>
  /\ w0 = NoWires
  /\ PeekWireOf(1).data = Some(1)
  /\ PeekWireOf(3).data = None

\* --------------------------------------------------------------- handles
HandleErrors == {"unknown handle", "type mismatch"}
BadWireHandles == { h \in WireHandles : WireLookup(wires, h) # "ok" }
BadRegisterHandles == { h \in RegisterHandles : RegisterLookup(regs, h) # "ok" }

\* the await goes through a handle that alloc did not return
BadIns(ins) ==
  CASE ins.op \in {"sample", "drive"} -> WireId(ins.a, ins.ty) \in BadWireHandles
    [] ins.op = "assign" -> \/ WireId(ins.a, ins.ty) \in BadWireHandles
                            \/ WireId(ins.b, ins.ty) \in BadWireHandles
    [] ins.op \in {"rsample", "rdrive"} -> RegisterId(ins.a, ins.ty) \in BadRegisterHandles

Fatal(r) == r.poll = "Panic" /\ r.why \in HandleErrors /\ r.out = None /\ r.state = Cur

\* C17: in every state, a peek, a sample, a drive or an assign through a
\* handle whose id is not in the map or whose type is not the type of the
\* cell is fatal, returns no value and leaves every wire and register as it
\* was; a poll of run() whose task is at such an await ends the program with
\* that error and changes no cell, and so does such a peek by the testbench.
C17_BadHandle ==
  /\ [](/\ \A h \in BadWireHandles :
             /\ peek_wire(wires, h).fatal \in HandleErrors
             /\ Fatal(CombFuturePoll(Cur, h))
             /\ \A v \in Data : Fatal(CombDriveFuturePoll(Cur, h, v))
             /\ \A w \in Wires :
                  /\ Fatal(AssignFuturePoll(Cur, h, GoodWire(w)))
                  /\ wires[w] # None => Fatal(AssignFuturePoll(Cur, GoodWire(w), h))
        /\ \A h \in BadRegisterHandles :
             /\ peek_register(regs, h).fatal \in HandleErrors
             /\ Fatal(SyncFuturePoll(Cur, h))
             /\ \A v \in Data : Fatal(SyncDriveFuturePoll(Cur, h, v))
        /\ BadWireHandles # {} /\ BadRegisterHandles # {})
  /\ [][ /\ (PollStep /\ steps < StepLimit /\ BadIns(HeadIns)) =>
              (err' \in HandleErrors /\ wires' = wires /\ regs' = regs)
         /\ (Idle /\ err' # "none") =>
              (err' \in HandleErrors /\ wires' = wires /\ regs' = regs /\ tasks' = tasks) ]_vars

C17_Witness ==
  /\ pc = "run"
  /\ sched = << "poke", "tyR" >>
  /\ err = "type mismatch"
  /\ wires[1] = Some(1)
  /\ \A r \in Regs : regs[r].next = None

\* ----------------------------------------------------------------- queue
NamesOf(q) == [i \in 1 .. Len(q) |-> q[i].name]

\* C18: the queue is first in, first out. schedule puts the new task, not
\* yet polled, behind the tasks already queued; the k-th poll of a run(),
\* for k up to the number of tasks scheduled, is the first poll of the k-th
\* scheduled task; every poll is of the head of the queue, which then either
\* leaves the queue or, suspended, goes behind every task that was queued.
C18_Fifo ==
  /\ [](Running /\ runPolls < Len(sched) =>
          /\ tasks # <<>>
          /\ Head(tasks) = NewTask(sched[runPolls + 1])
          /\ NamesOf(tasks) = SubSeq(sched, runPolls + 1, Len(sched))
                                \o SubSeq(NamesOf(tasks), Len(sched) - runPolls + 1, Len(tasks)))
  /\ [][ /\ (Idle /\ Len(tasks') > Len(tasks)) =>
              /\ tasks' = Append(tasks, tasks'[Len(tasks')])
              /\ tasks'[Len(tasks')].at = 1
         /\ (Idle /\ pc' # pc) => sched' = NamesOf(tasks) /\ tasks' = tasks
         /\ (PollStep /\ steps < StepLimit) =>
              \/ tasks' = Tail(tasks) /\ steps' = steps
              \/ /\ steps' = steps + 1
                 /\ Len(tasks') = Len(tasks)
                 /\ SubSeq(tasks', 1, Len(tasks) - 1) = Tail(tasks)
                 /\ tasks'[Len(tasks')].name = Head(tasks).name ]_vars

C18_Witness ==
  /\ Running
  /\ sched = << "modB", "conn", "modA" >>
  /\ runPolls = 4
  /\ runSusp = 4
  /\ NamesOf(tasks) = << "conn", "modA", "modB" >>

NameSet(q) == { q[i].name : i \in 1 .. Len(q) }

\* C19: no task that has completed is in the queue; during a run() the queue
\* holds only tasks scheduled for it, each at most once, a poll never makes
\* it longer and never brings back a task that left it; run() returns only
\* with the queue empty, and then every scheduled task has completed exactly
\* once (the polls of the run are its suspensions plus one per task).
C19_Completion ==
  /\ [](/\ \A i \in 1 .. Len(tasks) : tasks[i].at <= Len(Body(tasks[i].name))
        /\ InRun => /\ Len(tasks) <= Len(sched)
                    /\ NameSet(tasks) \subseteq { sched[i] : i \in 1 .. Len(sched) }
                    /\ Cardinality(NameSet(tasks)) = Len(tasks)
        /\ ReturnsNormally => runPolls = runSusp + Len(sched))
  /\ [][ /\ InRun => /\ Len(tasks') <= Len(tasks)
                     /\ NameSet(tasks') \subseteq NameSet(tasks)
         /\ (PollStep /\ steps' = steps) => tasks' = Tail(tasks)
         /\ (InRun /\ pc' # pc) => (tasks = <<>> /\ err = "none") ]_vars

C19_Witness ==
  /\ ReturnsNormally
  /\ Len(sched) = 3
  /\ runSusp = 3
  /\ runPolls = 6

\* C20: a wire that holds Some(v) holds the same Some(v) in the next state,
\* unless the step is a reset of the wires (reset_wires by the testbench, or
\* by step() once its run() has drained the queue), which leaves every wire
\* None; so in every state of a run() a wire that was driven when run() was
\* entered still holds the value it held then.
C20_Monotone ==
  /\ [](InRun => \A w \in Wires : w0[w] # None => wires[w] = w0[w])
  /\ [][ \A w \in Wires :
           (wires[w] # None /\ wires'[w] # wires[w]) =>
              /\ wires' = NoWires
              /\ ~PollStep
              /\ \/ pc = "idle" /\ pc' = "idle"
                 \/ pc = "step_run" /\ pc' = "step_update" /\ tasks = <<>> ]_vars

C20_Witness ==
  /\ Running
  /\ runPolls >= 1
  /\ w0[1] = Some(2) /\ w0[2] = None
  /\ wires[1] = Some(2) /\ wires[2] = Some(2)

\* ------------------------------------------------------------------ lock
\* What a poll of a future does with the Mutex<EngineState>, in order: every
\* `state.lock().unwrap()` is a temporary guard, dropped at the end of its
\* statement (or by the unwinding of a panic raised under it).
CombFutureLocks(s, h) == << "lock", "unlock" >>
CombDriveFutureLocks(s, h) == << "lock", "unlock" >>
AssignFutureLocks(s, src, tgt) ==
  IF read_wire(s, src).fatal # "none" \/ read_wire(s, src).data = None
  THEN << "lock", "unlock" >>
  ELSE << "lock", "unlock", "lock", "unlock" >>
SyncFutureLocks(s, h) == << "lock", "unlock" >>
SyncDriveFutureLocks(s, h) == << "lock", "unlock" >>

AwaitLocks(s, ins) ==
  CASE ins.op = "sample"  -> CombFutureLocks(s, WireId(ins.a, ins.ty))
    [] ins.op = "drive"   -> CombDriveFutureLocks(s, WireId(ins.a, ins.ty))
    [] ins.op = "assign"  -> AssignFutureLocks(s, WireId(ins.a, ins.ty), WireId(ins.b, ins.ty))
    [] ins.op = "rsample" -> SyncFutureLocks(s, RegisterId(ins.a, ins.ty))
    [] ins.op = "rdrive"  -> SyncDriveFutureLocks(s, RegisterId(ins.a, ins.ty))

Acquisitions(tr) == Cardinality({ i \in 1 .. Len(tr) : tr[i] = "lock" })
ReleasedAtEnd(tr) == tr # <<>> /\ tr[Len(tr)] = "unlock"

\* C21: in every state in which run() polls a task, the poll of the await
\* the task is at acquires the shared state exactly once and has released it
\* when it returns.
C21_LockOnce ==
  (PollStep /\ steps < StepLimit) =>
     /\ Acquisitions(AwaitLocks(Cur, HeadIns)) = 1
     /\ ReleasedAtEnd(AwaitLocks(Cur, HeadIns))

\* ---------------------------------------------------------- step counter
\* the run() loop continued from the current state with the task p, at its
\* first await, back at the head of the queue and no limit in the way
Unlimited(p) ==
  RunLoop([tasks |-> << NewTask(p) >> \o tasks, wires |-> wires, regs |-> regs, steps |-> 0,
           err |-> "none", log |-> <<>>, polled |-> FALSE, done |-> FALSE])

\* C22: the step counter never exceeds 32 and only a poll of run() changes
\* it: while it is below 32 the poll adds one to it if the task returns
\* Pending and leaves it as it is otherwise, and does not fail with 'step
\* limit'; when a task is popped with the counter at 32 run() fails with
\* 'step limit' without polling it: no wire, register or counter changes.
C22_StepCounter ==
  /\ [](steps <= StepLimit /\ (err = "step limit" => steps = StepLimit))
  /\ [][ /\ ~PollStep => (steps' = steps /\ err' = err)
         /\ (PollStep /\ steps < StepLimit) =>
              /\ steps' = steps + (IF TaskPoll(Cur, Head(tasks)).poll = "Pending" THEN 1 ELSE 0)
              /\ err' # "step limit"
         /\ (PollStep /\ steps = StepLimit) =>
              /\ err' = "step limit"
              /\ steps' = steps /\ wires' = wires /\ regs' = regs
              /\ tasks' = Tail(tasks) ]_vars

\* the popped task would have completed, and the queue would have drained
C22_Witness ==
  /\ err = "step limit"
  /\ steps = StepLimit
  /\ Scheduled("modB")
  /\ NamesOf(tasks) = << "modA" >>
  /\ wires[2] # None /\ wires[3] = None
  /\ TaskPoll(Cur, NewTask("modB")).poll = "Ready"
  /\ Unlimited("modB").tasks = <<>> /\ Unlimited("modB").err = "none"

\* ------------------------------------------------------------ resumption
\* every wire has at most one driver in the run: it was undriven at entry and
\* at most one await of the scheduled tasks drives it, or it was driven at
\* entry and none does
SoleDrivers(sc, ws) ==
  \A w \in Wires :
     Cardinality({ n \in Nodes(sc) : w \in WritesOf(InsAt(sc, n)) })
       + (IF ws[w] # None THEN 1 ELSE 0) <= 1

\* C23: a task that suspends goes back to the queue at the await it
\* suspended at, which is a sample or an assign and not before the await the
\* poll started from, with the values it has sampled so far; so in a run in
\* which every wire has at most one driver no drive is a conflict, however
\* many times the tasks are re-polled.
C23_Resume ==
  /\ []((InRun /\ SoleDrivers(sched, w0)) => err # "wire conflict")
  /\ [][ (PollStep /\ steps' = steps + 1) =>
           LET t == tasks'[Len(tasks')]
               h == Head(tasks)
           IN /\ t.name = h.name
              /\ t.at >= h.at
              /\ Len(t.vals) >= Len(h.vals)
              /\ SubSeq(t.vals, 1, Len(h.vals)) = h.vals
              /\ Body(t.name)[t.at].op \in {"sample", "assign"}
              /\ \A i \in 1 .. t.at - 1 :
                   WritesOf(Body(t.name)[i]) \subseteq { w \in Wires : wires'[w] # None } ]_vars

C23_Witness ==
  /\ ReturnsNormally
  /\ sched = << "modA", "modB", "conn" >>
  /\ runSusp = 3
  /\ runPolls = 6
  /\ wires[1] = Some(1) /\ wires[3] = Some(2)

\* ------------------------------------------------------------ empty queue
\* C24: a run() entered with an empty queue polls nothing and returns at
\* once: in its states the wires and the registers, current and pending, are
\* those at entry, and its return changes no wire, register, step counter or
\* cycle counter; the return of any run() leaves the wires it drove readable.
\* A step() entered with an empty queue, as after a run() that ran the tasks,
\* only clears the wires, commits the registers as they were at entry, and
\* adds one to the cycle counter.
C24_EmptyRun ==
  /\ []((InRun /\ sched = <<>>) =>
          /\ tasks = <<>> /\ err = "none"
          /\ runPolls = 0 /\ runSusp = 0
          /\ wires = w0 /\ regs = r0)
  /\ []((pc \in {"step_update", "step_inc"} /\ sched = <<>>) =>
          /\ wires = NoWires
          /\ regs = IF pc = "step_inc" THEN RegisterMapUpdate(r0) ELSE r0
          /\ runPolls = 0)
  /\ [][ (pc = "run" /\ pc' = "idle" /\ err' = "none") =>
           (wires' = wires /\ regs' = regs /\ steps' = steps /\ cycles' = cycles) ]_vars
  /\ [][ (sched = <<>> /\ pc # "idle") =>
           /\ steps' = steps /\ tasks' = tasks /\ err' = err
           /\ pc = "run" => (pc' = "idle" /\ wires' = wires /\ regs' = regs /\ cycles' = cycles)
           /\ pc = "step_run" => (pc' = "step_update" /\ regs' = regs /\ cycles' = cycles)
           /\ pc = "step_update" => (pc' = "step_inc" /\ wires' = wires /\ cycles' = cycles)
           /\ pc = "step_inc" => (pc' = "idle" /\ wires' = wires /\ regs' = regs
                                  /\ cycles' = cycles + 1) ]_vars

\* run() ran counter, then step() with nothing scheduled: the wire driven by
\* the run was readable until the step, which committed the register
C24_Witness ==
  /\ pc = "step_inc"
  /\ sched = <<>>
  /\ runs = 2
  /\ w0[3] = Some(0)
  /\ r0[1].next = Some(1)
  /\ regs[1].data = 1
  /\ wires = NoWires

\* ------------------------------------------------- clearing and committing
\* Engine::reset_wires and Engine::update_registers on the signal state
reset_wires(s) == [s EXCEPT !.wires = WireMapReset(s.wires)]
update_registers(s) == [s EXCEPT !.regs = RegisterMapUpdate(s.regs)]

\* C25: in every reachable state, clearing the wires then committing the
\* registers gives the same signal state as committing then clearing;
\* clearing changes no register cell and committing changes no wire cell.
\* The steps of the engine are these operations: in step() the clear then the
\* commit, called by a testbench either of them in any order.
C25_Commute ==
  /\ [](/\ update_registers(reset_wires(Cur)) = reset_wires(update_registers(Cur))
        /\ reset_wires(Cur).regs = regs
        /\ update_registers(Cur).wires = wires
        /\ update_registers(reset_wires(Cur)).wires = NoWires
        /\ \A r \in Regs : reset_wires(update_registers(Cur)).regs[r].next = None)
  /\ [][ /\ (pc = "step_run" /\ pc' = "step_update") => (Cur' = reset_wires(Cur))
         /\ (pc = "step_update" /\ pc' = "step_inc") => (Cur' = update_registers(Cur))
         /\ (pc = "idle" /\ pc' = "idle") =>
               \/ Cur' = Cur
               \/ Cur' = reset_wires(Cur)
               \/ Cur' = update_registers(Cur) ]_vars

\* a testbench committed before clearing, as tests/register.rs does, ran
\* again, and now has driven wires and pending registers at once
C25_Witness ==
  /\ Idle
  /\ cycles = 0
  /\ wires # NoWires
  /\ \E r \in Regs : regs[r].data # RegInit(r) /\ regs[r].next # None
  /\ reset_wires(Cur) # Cur
  /\ update_registers(Cur) # Cur
====
